---------------------------- MODULE Spec2Model ----------------------------
(***************************************************************************)
(* Model of tools/convertImage.py: the PlayStation 1 image/texture data   *)
(* converter.  The pure conversion functions (to16bpp, quantizeImage,     *)
(* getImagePalette, convertIndexedImage) are operators computed the way   *)
(* the NumPy code computes them; main() is a state machine whose steps    *)
(* are the points at which it touches the output files.                   *)
(*                                                                         *)
(* Data representation: an array of shape (h, w, c) is a sequence of h    *)
(* rows, each a sequence of w pixels, each a sequence of c channel bytes. *)
(* An index image of shape (h, w) is a sequence of h rows of w bytes.     *)
(***************************************************************************)
EXTENDS Integers, Sequences, FiniteSets

VARIABLES
    pc,           \* position of main()
    args,         \* the parsed command line (argparse Namespace)
    imageOutput,  \* the file named by the imageOutput argument
    clutOutput,   \* the file named by the clutOutput argument
    image,        \* main's local "image" (result of quantizeImage)
    imageData,    \* main's local "imageData"
    clutData,     \* main's local "clutData"
    call,         \* arguments of a direct call of one conversion function
    ret           \* what that call returned

vars == <<pc, args, imageOutput, clutOutput, image, imageData, clutData, call, ret>>
mainVars == <<pc, args, imageOutput, clutOutput, image, imageData, clutData>>
callVars == <<call, ret>>

----------------------------------------------------------------------------
(* Bounds of the model *)

\* main(): input images are at most MaxWidth x MaxHeight and cycle through
\* at most MaxImageColors test colors.
MaxWidth == 6
MaxHeight == 3
MaxImageColors == 18
\* to16bpp: channel values 0..MaxDarkChannel (plus a few brighter samples),
\* alpha values within AlphaMargin of the two thresholds (plus 0, 128, 255).
MaxDarkChannel == 5
AlphaMargin == 2
\* quantizeImage: every image of at most MaxQuantPixels pixels over the
\* sample colors, every limit 1..MaxLimit.
MaxQuantPixels == 4
MaxLimit == 4
\* convertIndexedImage: every index image of at most MaxPackPixels pixels.
MaxPackPixels == 5
\* getImagePalette: palettes of 1..MaxPaletteLen entries.
MaxPaletteLen == 8

----------------------------------------------------------------------------
(* Fixed-width integer helpers (NumPy uint8 / uint16 arithmetic) *)

RECURSIVE BitOr(_, _)
BitOr(a, b) ==
    IF a = 0 THEN b
    ELSE IF b = 0 THEN a
    ELSE (IF (a % 2 = 1) \/ (b % 2 = 1) THEN 1 ELSE 0)
         + 2 * BitOr(a \div 2, b \div 2)

ShiftLeft(x, n, width) == (x * (2 ^ n)) % (2 ^ width)

Max(a, b) == IF a >= b THEN a ELSE b

RECURSIVE Flatten(_)
Flatten(rows) ==
    IF rows = <<>> THEN <<>> ELSE Head(rows) \o Flatten(Tail(rows))

\* ndarray.reshape(( height, width )) of a flat sequence
Reshape(flat, height, width) ==
    [y \in 1..height |-> [x \in 1..width |-> flat[(y - 1) * width + x]]]

Zeros(n) == [i \in 1..n |-> 0]

----------------------------------------------------------------------------
(* Image data conversion: to16bpp *)

LOWER_ALPHA_BOUND == 32
UPPER_ALPHA_BOUND == 224

TRANSPARENT_COLOR == 0
BLACK_COLOR == 1057
STP_BLACK_COLOR == 32768

\* ((source[:, :, c] * 31) + 127) // 255 on uint16
Scale5(c) == (((c * 31) + 127) % 65536) \div 255

\* r | (g << 5) | (b << 10)
Solid(px) ==
    BitOr(BitOr(Scale5(px[1]), ShiftLeft(Scale5(px[2]), 5, 16)),
          ShiftLeft(Scale5(px[3]), 10, 16))

\* solid | (1 << 15)
Semitransparent(px) == BitOr(Solid(px), ShiftLeft(1, 15, 16))

\* inputData[:, :, 3] if the array has four channels, else 0xff
AlphaOf(px) == IF Len(px) = 4 THEN px[4] ELSE 255

\* Mutant: the black remap ignores useSTPBlack.
to16bppPixelNoSTPBlack(px, forceSTP, useSTPBlack) ==
    LET alpha == AlphaOf(px)
        data1 == IF alpha >= LOWER_ALPHA_BOUND
                 THEN Semitransparent(px) ELSE TRANSPARENT_COLOR
        data2 == IF ~forceSTP /\ alpha >= UPPER_ALPHA_BOUND
                 THEN Solid(px) ELSE data1
    IN  IF ~forceSTP /\ alpha >= UPPER_ALPHA_BOUND
           /\ Solid(px) = TRANSPARENT_COLOR
        THEN BLACK_COLOR
        ELSE data2

\* Mutant: no black remap at all.
to16bppPixelNoRemap(px, forceSTP, useSTPBlack) ==
    LET alpha == AlphaOf(px)
        data1 == IF alpha >= LOWER_ALPHA_BOUND
                 THEN Semitransparent(px) ELSE TRANSPARENT_COLOR
    IN  IF ~forceSTP /\ alpha >= UPPER_ALPHA_BOUND
        THEN Solid(px) ELSE data1

\* The value to16bpp leaves in data[y, x]: the np.full_like fill, then the
\* three np.copyto calls in program order.
to16bppPixel(px, forceSTP, useSTPBlack) ==
    LET alpha == AlphaOf(px)
        data0 == TRANSPARENT_COLOR
        data1 == IF alpha >= LOWER_ALPHA_BOUND
                 THEN Semitransparent(px) ELSE data0
        data2 == IF ~forceSTP /\ alpha >= UPPER_ALPHA_BOUND
                 THEN Solid(px) ELSE data1
        data3 == IF ~forceSTP /\ alpha >= UPPER_ALPHA_BOUND
                    /\ Solid(px) = TRANSPARENT_COLOR
                 THEN (IF useSTPBlack THEN STP_BLACK_COLOR ELSE BLACK_COLOR)
                 ELSE data2
    IN  data3

to16bpp(inputData, forceSTP, useSTPBlack) ==
    [y \in 1..Len(inputData) |->
        [x \in 1..Len(inputData[y]) |->
            to16bppPixel(inputData[y][x], forceSTP, useSTPBlack)]]

----------------------------------------------------------------------------
(* Input image handling: quantizeImage *)

\* Lexicographic order of two rows of equal length (np.unique, axis = 0)
RECURSIVE LexLess(_, _)
LexLess(a, b) ==
    IF a = <<>> THEN FALSE
    ELSE IF Head(a) # Head(b) THEN Head(a) < Head(b)
    ELSE LexLess(Tail(a), Tail(b))

\* Mutant: rows are compared on their last channel first.
RECURSIVE LexLessLastFirst(_, _)
LexLessLastFirst(a, b) ==
    IF a = <<>> THEN FALSE
    ELSE IF a[Len(a)] # b[Len(b)] THEN a[Len(a)] < b[Len(b)]
    ELSE LexLessLastFirst(SubSeq(a, 1, Len(a) - 1), SubSeq(b, 1, Len(b) - 1))

RowLess(a, b) == LexLess(a, b)

RECURSIVE SortedRows(_)
SortedRows(S) ==
    IF S = {} THEN <<>>
    ELSE LET m == CHOOSE x \in S : \A y \in S \ {x} : RowLess(x, y)
         IN  <<m>> \o SortedRows(S \ {m})

\* np.unique(rows, return_inverse = True, axis = 0)
UniqueRows(flat) == SortedRows({flat[i] : i \in 1..Len(flat)})

InverseOf(clut, flat) ==
    [i \in 1..Len(flat) |->
        (CHOOSE k \in 1..Len(clut) : clut[k] = flat[i]) - 1]

\* Image.convert("RGBA") of one pixel
ConvertRGBA(mode, px) ==
    CASE mode = "RGBA" -> px
      [] mode = "RGB"  -> <<px[1], px[2], px[3], 255>>
      [] mode = "L"    -> <<px[1], px[1], px[1], 255>>

ConvertImageRGBA(imageObj) ==
    [mode   |-> "RGBA",
     width  |-> imageObj.width,
     height |-> imageObj.height,
     pixels |-> [y \in 1..imageObj.height |->
                    [x \in 1..imageObj.width |->
                        ConvertRGBA(imageObj.mode, imageObj.pixels[y][x])]]]

\* Mutant: an image with exactly numColors colors is rejected too.
TooManyColorsOffByOne(count, numColors) == count >= numColors

\* clut.shape[0] > numColors
TooManyColors(count, numColors) == count > numColors

\* quantizeImage returns a "P" image carrying the sorted unique colors as
\* its palette (in the source image's mode), or raises RuntimeError.
quantizeImage(imageObj, numColors) ==
    LET src   == IF imageObj.mode \notin {"RGB", "RGBA"}
                 THEN ConvertImageRGBA(imageObj) ELSE imageObj
        flat  == Flatten(src.pixels)
        clut  == UniqueRows(flat)
        inv   == InverseOf(clut, flat)
    IN  IF TooManyColors(Len(clut), numColors)
        THEN [ok |-> FALSE, count |-> Len(clut), limit |-> numColors]
        ELSE [ok |-> TRUE,
              image |->
                [mode    |-> "P",
                 width   |-> src.width,
                 height  |-> src.height,
                 pixels  |-> Reshape([i \in 1..Len(inv) |-> inv[i] % 256],
                                     src.height, src.width),
                 palette |-> clut,
                 palmode |-> src.mode,
                 hasTransparency |-> FALSE,
                 transparency    |-> <<>>]]

----------------------------------------------------------------------------
(* Input image handling: getImagePalette *)

\* imageObj.getpalette("RGBA"), reshaped to (-1, 4): a palette stored
\* without alpha reads back with alpha 255.
PaletteRGBA(imageObj) ==
    [i \in 1..Len(imageObj.palette) |->
        IF imageObj.palmode = "RGBA"
        THEN imageObj.palette[i]
        ELSE imageObj.palette[i] \o <<255>>]

\* bytes.ljust(n, b"\xff"): pads on the right, never truncates
LJust(alpha, n) == alpha \o [i \in 1..Max(0, n - Len(alpha)) |-> 255]

\* The uint8 values the assignment clut[:, 3] = <float64 array> can store
\* for the little-endian IEEE 754 double held in the eight bytes b.  A
\* double of magnitude below 1 truncates to 0 and one in [1, 256) to its
\* integer part; the conversion of NaN, of an infinity and of any other
\* out-of-range double to an unsigned byte is undefined.
CastFloat64ToUint8(b) ==
    LET sign     == b[8] \div 128
        exponent == (b[8] % 128) * 16 + (b[7] \div 16)
        top12    == (b[7] % 16) * 256 + b[6]
        k        == exponent - 1023
    IN  IF exponent < 1023 THEN {0}
        ELSE IF sign = 0 /\ exponent <= 1030
             THEN {(2 ^ k) + (top12 \div (2 ^ (12 - k)))}
        ELSE 0..255

\* clut[:, 3] = np.frombuffer(buf): np.frombuffer reads float64 elements
\* (its default dtype) and needs a whole number of them; the assignment
\* needs one element, or one per palette entry.
FromBufferAlphas(buf, numEntries) ==
    IF Len(buf) % 8 # 0
    THEN [ok |-> FALSE, alphas |-> {}]
    ELSE LET m == Len(buf) \div 8
             elem(j) == SubSeq(buf, 8 * (j - 1) + 1, 8 * j)
         IN  IF m = 1
             THEN [ok |-> TRUE,
                   alphas |-> {[i \in 1..numEntries |-> v] :
                                  v \in CastFloat64ToUint8(elem(1))}]
             ELSE IF m = numEntries
             THEN [ok |-> TRUE,
                   alphas |-> {a \in [1..numEntries -> 0..255] :
                                  \A j \in 1..m :
                                      a[j] \in CastFloat64ToUint8(elem(j))}]
             ELSE [ok |-> FALSE, alphas |-> {}]

\* Every outcome of getImagePalette(imageObj): the RGBA palette, or
\* ValueError raised by the transparency merge.
getImagePalette(imageObj) ==
    LET clut == PaletteRGBA(imageObj)
    IN  IF ~imageObj.hasTransparency
        THEN {[ok |-> TRUE, clut |-> clut]}
        ELSE LET buf == LJust(imageObj.transparency, Len(clut))
                 res == FromBufferAlphas(buf, Len(clut))
             IN  IF ~res.ok
                 THEN {[ok |-> FALSE, clut |-> <<>>]}
                 ELSE {[ok |-> TRUE,
                        clut |-> [i \in 1..Len(clut) |->
                                    <<clut[i][1], clut[i][2], clut[i][3], a[i]>>]] :
                          a \in res.alphas}

----------------------------------------------------------------------------
(* Image data conversion: convertIndexedImage *)

\* Mutant: rows are never padded.
PadOddRowsNever(rows) == rows

\* if image.shape[1] % 2: image = np.c_[image, np.zeros((height, 1), "B")]
PadOddRows(rows) ==
    IF Len(rows[1]) % 2 = 1
    THEN [y \in 1..Len(rows) |-> Append(rows[y], 0)]
    ELSE rows

\* Mutant: the even column goes to the high nibble.
PackNibblesSwapped(rows) ==
    [y \in 1..Len(rows) |->
        [k \in 1..(Len(rows[y]) \div 2) |->
            BitOr(rows[y][2 * k], ShiftLeft(rows[y][2 * k - 1], 4, 8))]]

\* image[:, 0::2] | (image[:, 1::2] << 4) on uint8
PackNibbles(rows) ==
    [y \in 1..Len(rows) |->
        [k \in 1..(Len(rows[y]) \div 2) |->
            BitOr(rows[y][2 * k - 1], ShiftLeft(rows[y][2 * k], 4, 8))]]

\* The palette is padded to 16 or 256 entries after conversion to 16bpp.
PadClut(clut) ==
    LET numColors == Len(clut)
        padAmount == (IF numColors <= 16 THEN 16 ELSE 256) - numColors
    IN  clut \o Zeros(padAmount)

\* The body of convertIndexedImage once getImagePalette has returned rgba.
ConvertWithPalette(imageObj, rgba, forceSTP, useSTPBlack) ==
    LET clut      == to16bpp(<<rgba>>, forceSTP, useSTPBlack)
        numColors == Len(clut[1])
        padded    == PadOddRows(imageObj.pixels)
    IN  [ok    |-> TRUE,
         image |-> IF numColors <= 16
                   THEN PadOddRows(PackNibbles(padded))
                   ELSE padded,
         clut  |-> <<PadClut(clut[1])>>]

\* Every outcome of convertIndexedImage(imageObj, forceSTP, useSTPBlack)
convertIndexedImage(imageObj, forceSTP, useSTPBlack) ==
    {IF p.ok
     THEN ConvertWithPalette(imageObj, p.clut, forceSTP, useSTPBlack)
     ELSE [ok |-> FALSE, image |-> <<>>, clut |-> <<>>] :
        p \in getImagePalette(imageObj)}

----------------------------------------------------------------------------
(* main(): one run of the converter *)

\* ndarray bytes as file.write() emits them: "<H" words, low byte first
Bytes16(words) ==
    [i \in 1..(2 * Len(words)) |->
        IF i % 2 = 1 THEN words[(i + 1) \div 2] % 256
        ELSE words[i \div 2] \div 256]

Untouched == [state |-> "untouched", data |-> <<>>]
Truncated == [state |-> "truncated", data |-> <<>>]
Written(bytes) == [state |-> "written", data |-> bytes]

NoImage == [mode |-> "none"]
NotReturned == [done |-> FALSE]

\* Input colors: the first eight are the cases of the encoding rule, the
\* rest are distinct opaque colors.
TestColor(k) ==
    CASE k = 1 -> <<0, 0, 0, 255>>
      [] k = 2 -> <<255, 255, 255, 255>>
      [] k = 3 -> <<255, 0, 0, 255>>
      [] k = 4 -> <<0, 0, 0, 0>>
      [] k = 5 -> <<4, 4, 4, 224>>
      [] k = 6 -> <<0, 0, 0, 128>>
      [] k = 7 -> <<0, 0, 255, 31>>
      [] k = 8 -> <<8, 16, 24, 32>>
      [] OTHER -> <<(k * 37) % 256, k % 256, 255 - (k % 256), 255>>

\* A w x h image of the given mode whose pixels cycle through the first n
\* test colors in row-major order.
TestImage(w, h, n, mode) ==
    [mode   |-> mode,
     width  |-> w,
     height |-> h,
     pixels |-> [y \in 1..h |-> [x \in 1..w |->
                    LET c == TestColor((((y - 1) * w + (x - 1)) % n) + 1)
                    IN  IF mode = "RGBA" THEN c ELSE SubSeq(c, 1, 3)]]]

InputImages ==
    {TestImage(w, h, n, mode) :
        w \in 1..MaxWidth, h \in 1..MaxHeight,
        n \in 1..MaxImageColors, mode \in {"RGB", "RGBA"}}

Init ==
    /\ pc = "start"
    /\ args \in [bpp : {4, 8, 16}, force_stp : BOOLEAN, stp_black : BOOLEAN,
                 input : InputImages, hasClutOutput : BOOLEAN]
    /\ imageOutput = Untouched
    /\ clutOutput = Untouched
    /\ image = NoImage
    /\ imageData = <<>>
    /\ clutData = <<>>
    /\ call = [fn |-> "main"]
    /\ ret = NotReturned

\* parser.parse_args(): FileType("wb") opens, and so truncates, each output
\* file that is named on the command line.
ParseArgs ==
    /\ pc = "start"
    /\ pc' = "parsed"
    /\ imageOutput' = Truncated
    /\ clutOutput' = IF args.hasClutOutput THEN Truncated ELSE clutOutput
    /\ UNCHANGED <<args, image, imageData, clutData, call, ret>>

\* if args.bpp == 16: to16bpp is called without args.stp_black
Direct16 ==
    /\ pc = "parsed"
    /\ args.bpp = 16
    /\ imageData' = to16bpp(ConvertImageRGBA(args.input).pixels,
                            args.force_stp, FALSE)
    /\ pc' = "writeImage"
    /\ UNCHANGED <<args, imageOutput, clutOutput, image, clutData, call, ret>>

\* parser.error("path to palette data must be specified")
MissingClutOutput ==
    /\ pc = "parsed"
    /\ args.bpp # 16
    /\ ~args.hasClutOutput
    /\ pc' = "error"
    /\ ret' = [done |-> TRUE, status |-> 2]
    /\ UNCHANGED <<args, imageOutput, clutOutput, image, imageData, clutData, call>>

QuantizeOk ==
    /\ pc = "parsed"
    /\ args.bpp # 16
    /\ args.hasClutOutput
    /\ LET q == quantizeImage(args.input, 2 ^ args.bpp)
       IN  /\ q.ok
           /\ image' = q.image
    /\ pc' = "quantized"
    /\ UNCHANGED <<args, imageOutput, clutOutput, imageData, clutData, call, ret>>

\* except RuntimeError as err: parser.error(err.args[0])
QuantizeError ==
    /\ pc = "parsed"
    /\ args.bpp # 16
    /\ args.hasClutOutput
    /\ ~quantizeImage(args.input, 2 ^ args.bpp).ok
    /\ pc' = "error"
    /\ ret' = [done |-> TRUE, status |-> 2]
    /\ UNCHANGED <<args, imageOutput, clutOutput, image, imageData, clutData, call>>

\* The image returned by quantizeImage carries no transparency entry, so
\* getImagePalette cannot raise here.
ConvertIndexed ==
    /\ pc = "quantized"
    /\ \E r \in convertIndexedImage(image, args.force_stp, args.stp_black) :
          /\ r.ok
          /\ imageData' = r.image
          /\ clutData' = r.clut
    /\ pc' = "writeClut"
    /\ UNCHANGED <<args, imageOutput, clutOutput, image, call, ret>>

WriteClut ==
    /\ pc = "writeClut"
    /\ clutOutput' = Written(Bytes16(Flatten(clutData)))
    /\ pc' = "writeImage"
    /\ UNCHANGED <<args, imageOutput, image, imageData, clutData, call, ret>>

WriteImage ==
    /\ pc = "writeImage"
    /\ imageOutput' = Written(IF args.bpp = 16
                              THEN Bytes16(Flatten(imageData))
                              ELSE Flatten(imageData))
    /\ pc' = "done"
    /\ ret' = [done |-> TRUE, status |-> 0]
    /\ UNCHANGED <<args, clutOutput, image, imageData, clutData, call>>

Next ==
    \/ ParseArgs
    \/ Direct16
    \/ MissingClutOutput
    \/ QuantizeOk
    \/ QuantizeError
    \/ ConvertIndexed
    \/ WriteClut
    \/ WriteImage

Spec == Init /\ [][Next]_vars

----------------------------------------------------------------------------
(* Direct calls of the conversion functions on enumerated inputs *)

IdleMain ==
    /\ pc = "idle"
    /\ args = [bpp |-> 16]
    /\ imageOutput = Untouched
    /\ clutOutput = Untouched
    /\ image = NoImage
    /\ imageData = <<>>
    /\ clutData = <<>>

(* to16bpp *)

ChannelSamples == (0..MaxDarkChannel) \cup {8, 127, 128, 255}

AlphaSamples ==
    {a \in 0..255 :
        \/ a \in {0, 128, 255}
        \/ (a >= LOWER_ALPHA_BOUND - AlphaMargin /\ a <= LOWER_ALPHA_BOUND + AlphaMargin)
        \/ (a >= UPPER_ALPHA_BOUND - AlphaMargin /\ a <= UPPER_ALPHA_BOUND + AlphaMargin)}

ColorSamples ==
    {<<r, g, b, a>> : r \in ChannelSamples, g \in ChannelSamples,
                      b \in ChannelSamples, a \in AlphaSamples}
    \cup {<<r, g, b>> : r \in ChannelSamples, g \in ChannelSamples,
                        b \in ChannelSamples}

InitEncode ==
    /\ IdleMain
    /\ call \in [fn : {"to16bpp"}, inputData : {<<<<c>>>> : c \in ColorSamples},
                 forceSTP : BOOLEAN, useSTPBlack : BOOLEAN]
    /\ ret = NotReturned

CallTo16bpp ==
    /\ call.fn = "to16bpp"
    /\ ~ret.done
    /\ ret' = [done |-> TRUE,
               value |-> to16bpp(call.inputData, call.forceSTP, call.useSTPBlack)]
    /\ UNCHANGED <<mainVars, call>>

SpecEncode == InitEncode /\ [][CallTo16bpp]_vars

(* quantizeImage *)

QuantColors(mode) ==
    CASE mode = "RGBA" -> {<<0, 0, 0, 255>>, <<0, 0, 1, 0>>, <<0, 1, 0, 0>>, <<1, 0, 0, 0>>}
      [] mode = "RGB"  -> {<<0, 0, 0>>, <<0, 0, 1>>, <<0, 1, 0>>, <<1, 0, 0>>}
      [] mode = "L"    -> {<<0>>, <<1>>, <<128>>, <<255>>}

\* The <<width, height>> pairs of the images of at most maxPixels pixels
Shapes(maxPixels) ==
    {s \in (1..maxPixels) \X (1..maxPixels) : s[1] * s[2] <= maxPixels}

QuantImages ==
    UNION {{[mode |-> mode, width |-> s[1], height |-> s[2], pixels |-> p] :
                p \in [1..s[2] -> [1..s[1] -> QuantColors(mode)]]} :
            mode \in {"RGB", "RGBA", "L"}, s \in Shapes(MaxQuantPixels)}

InitQuantize ==
    /\ IdleMain
    /\ call \in [fn : {"quantizeImage"}, imageObj : QuantImages,
                 numColors : 1..MaxLimit]
    /\ ret = NotReturned

CallQuantizeImage ==
    /\ call.fn = "quantizeImage"
    /\ ~ret.done
    /\ ret' = [done |-> TRUE, requantized |-> FALSE,
               value |-> quantizeImage(call.imageObj, call.numColors)]
    /\ UNCHANGED <<mainVars, call>>

\* The palette of a successful result, as a 1 x N image of the same mode
PaletteAsImage(img) ==
    [mode |-> img.palmode, width |-> Len(img.palette), height |-> 1,
     pixels |-> <<img.palette>>]

CallQuantizePalette ==
    /\ call.fn = "quantizeImage"
    /\ ret.done
    /\ ~ret.requantized
    /\ ret.value.ok
    /\ ret' = [done |-> TRUE, requantized |-> TRUE, value |-> ret.value,
               second |-> quantizeImage(PaletteAsImage(ret.value.image),
                                        call.numColors)]
    /\ UNCHANGED <<mainVars, call>>

NextQuantize == CallQuantizeImage \/ CallQuantizePalette

SpecQuantize == InitQuantize /\ [][NextQuantize]_vars

(* convertIndexedImage *)

\* Palette sizes on both sides of the 16-color packing threshold
PackPaletteLens == {1, 2, 16, 17, 256}

PackIndexSamples(n) == {0, n \div 2, n - 1}

PackImages ==
    UNION {{[mode |-> "P", width |-> s[1], height |-> s[2], pixels |-> p,
             palette |-> [i \in 1..n |-> TestColor(i)], palmode |-> "RGBA",
             hasTransparency |-> FALSE, transparency |-> <<>>] :
                p \in [1..s[2] -> [1..s[1] -> PackIndexSamples(n)]]} :
            n \in PackPaletteLens, s \in Shapes(MaxPackPixels)}

InitPack ==
    /\ IdleMain
    /\ call \in [fn : {"convertIndexedImage"}, imageObj : PackImages,
                 forceSTP : BOOLEAN, useSTPBlack : {FALSE}]
    /\ ret = NotReturned

CallConvertIndexedImage ==
    /\ call.fn = "convertIndexedImage"
    /\ ~ret.done
    /\ \E r \in convertIndexedImage(call.imageObj, call.forceSTP, call.useSTPBlack) :
          ret' = [done |-> TRUE, value |-> r]
    /\ UNCHANGED <<mainVars, call>>

SpecPack == InitPack /\ [][CallConvertIndexedImage]_vars

(* getImagePalette *)

\* Transparency arrays of n bytes: fully transparent / opaque entries, and
\* one array whose last two bytes are 0xf0 0x3f.
TransparencySamples(n) ==
    [1..n -> {0, 255}]
    \cup {[i \in 1..n |-> IF i = n THEN 63 ELSE IF i = n - 1 THEN 240 ELSE 0]}

PaletteImages ==
    UNION {{[mode |-> "P", width |-> 1, height |-> 1, pixels |-> <<<<0>>>>,
             palette |-> [i \in 1..p |->
                            IF palmode = "RGBA"
                            THEN <<i, 2 * i, 3 * i, 100 + i>>
                            ELSE <<i, 2 * i, 3 * i>>],
             palmode |-> palmode,
             hasTransparency |-> TRUE, transparency |-> t] :
                t \in IF n <= p THEN TransparencySamples(n) ELSE {}} :
            p \in 1..MaxPaletteLen,
            n \in 0..MaxPaletteLen,
            palmode \in {"RGB", "RGBA"}}

InitPalette ==
    /\ IdleMain
    /\ call \in [fn : {"getImagePalette"}, imageObj : PaletteImages]
    /\ ret = NotReturned

CallGetImagePalette ==
    /\ call.fn = "getImagePalette"
    /\ ~ret.done
    /\ \E r \in getImagePalette(call.imageObj) :
          ret' = [done |-> TRUE, value |-> r]
    /\ UNCHANGED <<mainVars, call>>

SpecPalette == InitPalette /\ [][CallGetImagePalette]_vars

----------------------------------------------------------------------------
(* Properties of to16bpp (checked under SpecEncode) *)

EncodedPixel == ret.value[1][1]
EncodedFrom == call.inputData[1][1]

\* C1: every RGBA8 color with R = G = B = 0 and alpha >= 224 encodes to
\* 0x0421 with both flags off, to 0x8000 with only useSemitransparentBlack
\* on, and to 0x8000 with forceSemitransparent on, whatever the other flag.
C1_OpaqueBlackRemap ==
    (ret.done /\ call.fn = "to16bpp"
       /\ Len(EncodedFrom) = 4
       /\ EncodedFrom[1] = 0 /\ EncodedFrom[2] = 0 /\ EncodedFrom[3] = 0
       /\ EncodedFrom[4] >= 224)
    => EncodedPixel = (IF call.forceSTP THEN 32768
                       ELSE IF call.useSTPBlack THEN 32768 ELSE 1057)

C1_Witness ==
    /\ ret.done /\ call.fn = "to16bpp"
    /\ EncodedFrom = <<0, 0, 0, 224>>
    /\ ~call.forceSTP /\ call.useSTPBlack
    /\ EncodedPixel = 32768

\* C2: for every RGBA8 color and every combination of the two flags, the
\* encoded word is 0x0000 if and only if alpha < 32.
C2_TransparentIffLowAlpha ==
    (ret.done /\ call.fn = "to16bpp")
    => (EncodedPixel = 0 <=> (Len(EncodedFrom) = 4 /\ EncodedFrom[4] < 32))

C2_Witness ==
    /\ ret.done /\ call.fn = "to16bpp"
    /\ EncodedFrom = <<4, 4, 4, 224>>
    /\ ~call.forceSTP /\ ~call.useSTPBlack
    /\ EncodedPixel = 1057

----------------------------------------------------------------------------
(* Properties of main (checked under Spec) *)

\* The RGBA8 pixel main's 16bpp path feeds to to16bpp for input pixel px
InputRGBA(px) == IF Len(px) = 4 THEN px ELSE <<px[1], px[2], px[3], 255>>

\* C3: at depth 16 every output word is encode(pixel, forceSemitransparent,
\* useSemitransparentBlack) with both flags as requested by the caller.
C3_Direct16UsesBothFlags ==
    (pc = "done" /\ args.bpp = 16)
    => \A y \in 1..args.input.height : \A x \in 1..args.input.width :
          imageData[y][x] = to16bppPixel(InputRGBA(args.input.pixels[y][x]),
                                         args.force_stp, args.stp_black)

NumInputColors ==
    Cardinality({args.input.pixels[y][x] :
                    y \in 1..args.input.height, x \in 1..args.input.width})

\* C4: a conversion at depth 8 of an image with at most 16 distinct colors
\* writes one byte per pixel index (row length = width rounded up to even)
\* and a 16-entry palette.
C4_Depth8BytePerPixel ==
    (pc = "done" /\ args.bpp = 8 /\ NumInputColors <= 16)
    => /\ Len(clutData[1]) = 16
       /\ \A y \in 1..args.input.height :
             /\ Len(imageData[y]) = args.input.width + (args.input.width % 2)
             /\ \A x \in 1..args.input.width :
                   imageData[y][x] = image.pixels[y][x]

\* C5: a run that ends in an error (too many colors, or an indexed depth
\* with no palette output) leaves both output files untouched.
C5_ErrorLeavesOutputsUntouched ==
    pc = "error"
    => (imageOutput.state = "untouched" /\ clutOutput.state = "untouched")

----------------------------------------------------------------------------
(* Properties of quantizeImage (checked under SpecQuantize) *)

\* The RGBA8 (or RGB8) colors of the pixels of the image quantizeImage
\* works on: an "L" image is converted to RGBA first.
SourceColor(imageObj, y, x) ==
    LET px == imageObj.pixels[y][x]
    IN  IF imageObj.mode = "L" THEN <<px[1], px[1], px[1], 255>> ELSE px

SourceColors(imageObj) ==
    {SourceColor(imageObj, y, x) :
        y \in 1..imageObj.height, x \in 1..imageObj.width}

\* C6: quantizeImage fails, reporting the count K of distinct colors, iff
\* K is greater than the limit; otherwise the palette has exactly K
\* entries and holds each distinct color of the image exactly once.
C6_TooManyColorsIff ==
    (ret.done /\ call.fn = "quantizeImage")
    => LET colors == SourceColors(call.imageObj)
           K == Cardinality(colors)
           q == ret.value
       IN  /\ ~q.ok <=> K > call.numColors
           /\ ~q.ok => q.count = K
           /\ q.ok => /\ Len(q.image.palette) = K
                      /\ \A c \in colors :
                            Cardinality({i \in 1..K : q.image.palette[i] = c}) = 1

C6_Witness ==
    /\ ret.done /\ call.fn = "quantizeImage"
    /\ ~ret.value.ok
    /\ ret.value.count = call.numColors + 1
    /\ call.numColors = MaxLimit - 1

\* a precedes b in lexicographic order of (R, G, B, A)
Precedes(a, b) ==
    \E k \in 1..Len(a) :
        /\ a[k] < b[k]
        /\ \A j \in 1..(k - 1) : a[j] = b[j]

\* C7: on success the palette is in strictly ascending lexicographic order
\* and every pixel's index is the position of its color in the palette;
\* re-quantizing the palette as a 1 x N image yields the same palette and
\* the indices 0, 1, ..., N-1.
C7_SortedPaletteAndIndices ==
    (ret.done /\ call.fn = "quantizeImage" /\ ret.value.ok)
    => LET img == ret.value.image
           N   == Len(img.palette)
       IN  /\ \A i \in 1..(N - 1) : Precedes(img.palette[i], img.palette[i + 1])
           /\ \A y \in 1..img.height : \A x \in 1..img.width :
                 /\ img.pixels[y][x] >= 0
                 /\ img.pixels[y][x] < N
                 /\ img.palette[img.pixels[y][x] + 1] = SourceColor(call.imageObj, y, x)
           /\ ret.requantized =>
                 /\ ret.second.ok
                 /\ ret.second.image.palette = img.palette
                 /\ ret.second.image.pixels = <<[i \in 1..N |-> i - 1]>>

C7_Witness ==
    /\ ret.done /\ call.fn = "quantizeImage" /\ ret.value.ok
    /\ ret.requantized
    /\ call.imageObj.mode = "RGBA"
    /\ call.imageObj.pixels = <<<<<<1, 0, 0, 0>>, <<0, 0, 0, 255>>, <<0, 1, 0, 0>>>>>>
    /\ ret.value.image.pixels = <<<<2, 0, 1>>>>
    /\ ret.second.image.pixels = <<<<0, 1, 2>>>>

----------------------------------------------------------------------------
(* Properties of convertIndexedImage (checked under SpecPack) *)

PackedNibbles == Len(call.imageObj.palette) <= 16

\* The index stored for column x in a packed row: for nibble packing the
\* low nibble of byte (x + 1) / 2 for an even (0-based) column and the
\* high nibble for an odd one; otherwise byte x.
UnpackedIndex(row, x) ==
    IF PackedNibbles
    THEN IF x % 2 = 1 THEN row[(x + 1) \div 2] % 16 ELSE row[x \div 2] \div 16
    ELSE row[x]

\* C8: unpacking the output of convertIndexedImage and discarding the
\* padding reproduces the original W x H indices, for both packings.
C8_PackRoundTrip ==
    (ret.done /\ call.fn = "convertIndexedImage")
    => /\ ret.value.ok
       /\ Len(ret.value.image) = call.imageObj.height
       /\ \A y \in 1..call.imageObj.height : \A x \in 1..call.imageObj.width :
             UnpackedIndex(ret.value.image[y], x) = call.imageObj.pixels[y][x]

C8_Witness ==
    /\ ret.done /\ call.fn = "convertIndexedImage"
    /\ Len(call.imageObj.palette) = 16
    /\ call.imageObj.pixels = <<<<15, 8, 0>>>>
    /\ ret.value.image = <<<<143, 0>>>>

\* The number of columns a packed row of width W holds once the padding
\* columns are counted (two per byte when nibble-packed)
PackedColumns(row) == IF PackedNibbles THEN 2 * Len(row) ELSE Len(row)

\* C9: every row of the image buffer returned by convertIndexedImage has an
\* even byte length, all rows have the same length, and every padding byte
\* or nibble is zero.
C9_RowsEvenAndZeroPadded ==
    (ret.done /\ call.fn = "convertIndexedImage" /\ ret.value.ok)
    => \A y \in 1..Len(ret.value.image) :
          LET row == ret.value.image[y]
          IN  /\ Len(row) % 2 = 0
              /\ Len(row) = Len(ret.value.image[1])
              /\ PackedColumns(row) >= call.imageObj.width
              /\ \A x \in (call.imageObj.width + 1)..PackedColumns(row) :
                    UnpackedIndex(row, x) = 0

C9_Witness ==
    /\ ret.done /\ call.fn = "convertIndexedImage"
    /\ Len(call.imageObj.palette) = 16
    /\ call.imageObj.width = 5
    /\ call.imageObj.pixels[1][5] = 15
    /\ ret.value.image[1][3] = 15
    /\ Len(ret.value.image[1]) = 4

----------------------------------------------------------------------------
(* Properties of getImagePalette (checked under SpecPalette) *)

\* C10: given a palette of P entries and a transparency array of N <= P
\* bytes, the returned palette has alpha = transparency byte i for i < N,
\* the base palette's alpha for N <= i < P, and unchanged RGB channels.
C10_TransparencyMerged ==
    (ret.done /\ call.fn = "getImagePalette" /\ call.imageObj.hasTransparency
       /\ Len(call.imageObj.transparency) <= Len(call.imageObj.palette))
    => /\ ret.value.ok
       /\ Len(ret.value.clut) = Len(call.imageObj.palette)
       /\ \A i \in 1..Len(call.imageObj.palette) :
             LET base == call.imageObj.palette[i]
                 got  == ret.value.clut[i]
             IN  /\ got[1] = base[1] /\ got[2] = base[2] /\ got[3] = base[3]
                 /\ got[4] = IF i <= Len(call.imageObj.transparency)
                             THEN call.imageObj.transparency[i]
                             ELSE IF Len(base) = 4 THEN base[4] ELSE 255

============================================================================
